---------------------------- MODULE Spec2Model ----------------------------
(***************************************************************************)
(* A model of esp32-drawer: the fixed-capacity buffers (src/buffer.rs),    *)
(* the request reader and parser (src/lib.rs), the backend and screen      *)
(* tasks (src/bin/tasks/backend.rs, src/bin/tasks/screen.rs).              *)
(*                                                                         *)
(* Bytes are naturals 0..255.  Rust's 0-based half-open ranges buf[a..b]   *)
(* are the 1-based positions a+1..b of a TLA+ sequence.                    *)
(***************************************************************************)
EXTENDS Integers, Sequences, FiniteSets, TLC

(***************************************************************************)
(* Bytes                                                                   *)
(***************************************************************************)
NUL == 0
LF == 10
CR == 13
SP == 32
\* A byte that occurs in no well-formed UTF-8 sequence.
BAD == 255

\* [0; n]
Zeros(n) == [i \in 1..n |-> 0]

\* s[a..b] with Rust's 0-based half-open bounds
Slice(s, a, b) == [i \in 1..(b - a) |-> s[a + i]]

(***************************************************************************)
(* ResponseBuffer<S> (src/buffer.rs).  S is the length of buf.             *)
(***************************************************************************)
\* ResponseBuffer::new
new(S) == [buf |-> Zeros(S), pos |-> 0]

\* ResponseBuffer::buffer: &self.buf[..self.pos]
buffer(rb) == Slice(rb.buf, 0, rb.pos)

\* self.buf[self.pos..(self.pos + bytes.len())].clone_from_slice(bytes)
clone_from_slice(buf, pos, bytes) ==
    [i \in 1..Len(buf) |->
        IF pos < i /\ i <= pos + Len(bytes) THEN bytes[i - pos] ELSE buf[i]]

\* Mutant: the capacity test is off by one (>= for >).
write_off_by_one(rb, bytes) ==
    IF (rb.pos + Len(bytes)) >= Len(rb.buf)
    THEN [rb |-> rb, ok |-> FALSE]
    ELSE [rb |-> [buf |-> clone_from_slice(rb.buf, rb.pos, bytes),
                  pos |-> rb.pos + Len(bytes)],
          ok |-> TRUE]

\* ResponseBuffer::write: the result and the buffer afterwards
write(rb, bytes) ==
    IF (rb.pos + Len(bytes)) > Len(rb.buf)
    THEN [rb |-> rb, ok |-> FALSE]
    ELSE [rb |-> [buf |-> clone_from_slice(rb.buf, rb.pos, bytes),
                  pos |-> rb.pos + Len(bytes)],
          ok |-> TRUE]

\* Mutant: a rejected write_str still copies the part that fits.
write_str_truncating(rb, bytes) ==
    IF (rb.pos + Len(bytes)) > Len(rb.buf)
    THEN [rb |-> [buf |-> clone_from_slice(rb.buf, rb.pos,
                             Slice(bytes, 0, Len(rb.buf) - rb.pos)),
                  pos |-> rb.pos],
          ok |-> FALSE]
    ELSE [rb |-> [buf |-> clone_from_slice(rb.buf, rb.pos, bytes),
                  pos |-> rb.pos + Len(bytes)],
          ok |-> TRUE]

\* <ResponseBuffer as core::fmt::Write>::write_str, on in_str.as_bytes()
write_str(rb, bytes) ==
    IF (rb.pos + Len(bytes)) > Len(rb.buf)
    THEN [rb |-> rb, ok |-> FALSE]
    ELSE [rb |-> [buf |-> clone_from_slice(rb.buf, rb.pos, bytes),
                  pos |-> rb.pos + Len(bytes)],
          ok |-> TRUE]

(***************************************************************************)
(* Option<T>: None is the empty sequence, Some(x) the sequence of x alone. *)
(***************************************************************************)
None == <<>>
Some(x) == <<x>>

Min(S) == CHOOSE x \in S : \A y \in S : x <= y
Max(S) == CHOOSE x \in S : \A y \in S : x >= y
\* The k-th smallest element of a set of numbers
Nth(S, k) == CHOOSE x \in S : Cardinality({y \in S : y < x}) = k - 1

(***************************************************************************)
(* Text literals of the sources, as bytes                                  *)
(***************************************************************************)
\* "GET"
GET == <<71, 69, 84>>
\* "POST"
POST == <<80, 79, 83, 84>>
\* "/data"
PATH_DATA == <<47, 100, 97, 116, 97>>
\* "/clear"
PATH_CLEAR == <<47, 99, 108, 101, 97, 114>>
\* "\r\n"
CRLF == <<13, 10>>
\* "\r\n\r\n"
TERMINATOR == <<13, 10, 13, 10>>

(***************************************************************************)
(* Request<S> and Request::parse_request (src/lib.rs)                      *)
(***************************************************************************)
\* Slots of Request::headers in the model (32 in the source)
HeaderCap == 2

\* Request::new
Request_new ==
    [method |-> None, path |-> None,
     headers |-> [i \in 1..HeaderCap |-> None], data |-> None]

\* Mutant: every buffer is taken for valid text.
from_utf8_unchecked(b) == TRUE

\* core::str::from_utf8(b).is_ok().  The inputs of this model hold ASCII
\* bytes and BAD only, and BAD is in no well-formed UTF-8 sequence, so a
\* byte string is valid exactly when it holds no byte above 127.
from_utf8_ok(b) == \A i \in 1..Len(b) : b[i] < 128

\* str::contains("\r\n\r\n")
contains_terminator(b) ==
    \E i \in 1..(Len(b) - 3) :
        b[i] = CR /\ b[i + 1] = LF /\ b[i + 2] = CR /\ b[i + 3] = LF

\* str::split("\r\n"), collected: the pieces between the occurrences of CR LF
split_crlf(b) ==
    LET P == {i \in 1..(Len(b) - 1) : b[i] = CR /\ b[i + 1] = LF}
        n == Cardinality(P)
        first(j) == IF j = 1 THEN 0 ELSE Nth(P, j - 1) + 1
        last(j) == IF j = n + 1 THEN Len(b) ELSE Nth(P, j) - 1
    IN  [j \in 1..(n + 1) |-> Slice(b, first(j), last(j))]

\* first_line.split(' '): the first piece
split_space_first(line) ==
    LET sp == {i \in 1..Len(line) : line[i] = SP}
    IN  IF sp = {} THEN line ELSE Slice(line, 0, Min(sp) - 1)

\* first_line.split(' '): the second piece, parts.next().unwrap_or("")
split_space_second(line) ==
    LET sp == {i \in 1..Len(line) : line[i] = SP}
    IN  IF sp = {} THEN <<>>
        ELSE LET a == Min(sp)
                 later == {i \in sp : i > a}
             IN  Slice(line, a, IF later = {} THEN Len(line) ELSE Min(later) - 1)

\* Mutant: nothing is trimmed.
trim_nothing(s) == s

\* str::trim_matches(char::from(0))
trim_matches_nul(s) ==
    LET nz == {i \in 1..Len(s) : s[i] # NUL}
    IN  IF nz = {} THEN <<>> ELSE Slice(s, Min(nz) - 1, Max(nz))

\* Request::parse_request on self.rb.  The result is the Request afterwards
\* and whether the call panicked: self.headers has HeaderCap slots, and the
\* loop indexes it with the position of every line before the blank line.
parse_request(req, rb) ==
    IF rb = None THEN [req |-> req, panic |-> FALSE]
    ELSE IF ~from_utf8_ok(rb[1]) THEN [req |-> req, panic |-> FALSE]
    ELSE
    LET lines == split_crlf(rb[1])
        first_line == lines[1]
        method == split_space_first(first_line)
        path == split_space_second(first_line)
        \* lines.by_ref().enumerate(): the lines after the first
        rest == Tail(lines)
        blanks == {j \in 1..Len(rest) : Len(rest[j]) = 0}
        \* the lines the loop stores before it breaks or runs out
        nhdr == IF blanks = {} THEN Len(rest) ELSE Min(blanks) - 1
        \* lines.next().unwrap_or("") after the loop
        data_line == IF blanks # {} /\ Min(blanks) < Len(rest)
                     THEN rest[Min(blanks) + 1] ELSE <<>>
        stored == [i \in 1..HeaderCap |->
                     IF i <= nhdr THEN Some(rest[i]) ELSE req.headers[i]]
    IN  IF nhdr > HeaderCap
        THEN [req |-> [req EXCEPT !.headers = stored], panic |-> TRUE]
        ELSE [req |-> [method |-> Some(method), path |-> Some(path),
                       headers |-> stored,
                       data |-> Some(trim_matches_nul(data_line))],
              panic |-> FALSE]

(***************************************************************************)
(* serde_json_core::from_str::<[Option<(usize, usize)>; N]> as the backend *)
(* calls it on the request body.  The deserializer reads the text left to  *)
(* right, skipping whitespace before every bracket, comma, number and      *)
(* null; the model first cuts the text into those tokens and then matches  *)
(* the tokens against the shape the visitors of the array, the Option and  *)
(* the pair demand.                                                        *)
(***************************************************************************)
Tok(kind, value) == [t |-> kind, v |-> value]

\* the position after the digits that start at i
RECURSIVE NumberEnd(_, _)
NumberEnd(s, i) ==
    IF i <= Len(s) /\ s[i] \in 48..57 THEN NumberEnd(s, i + 1) ELSE i

\* the value of the digits s[i..j-1].  The parser's checked arithmetic
\* rejects a number above usize::MAX; the bodies of this model hold numbers
\* of at most two digits, far below it.
RECURSIVE NumberValue(_, _, _)
NumberValue(s, i, j) ==
    IF j <= i THEN 0 ELSE NumberValue(s, i, j - 1) * 10 + (s[j - 1] - 48)

\* The tokens of s from position i on.  A zero is a number by itself
\* (deserialize_unsigned returns 0 without looking further); a byte that
\* starts no token gives the token "bad", and the rest is not read.
RECURSIVE Tokens(_, _)
Tokens(s, i) ==
    IF i > Len(s) THEN <<>>
    ELSE IF s[i] \in {32, 10, 9, 13} THEN Tokens(s, i + 1)
    ELSE IF s[i] = 91 THEN <<Tok("[", 0)>> \o Tokens(s, i + 1)
    ELSE IF s[i] = 93 THEN <<Tok("]", 0)>> \o Tokens(s, i + 1)
    ELSE IF s[i] = 44 THEN <<Tok(",", 0)>> \o Tokens(s, i + 1)
    ELSE IF s[i] = 48 THEN <<Tok("num", 0)>> \o Tokens(s, i + 1)
    ELSE IF s[i] \in 49..57
    THEN <<Tok("num", NumberValue(s, i, NumberEnd(s, i)))>> \o Tokens(s, NumberEnd(s, i))
    ELSE IF i + 3 <= Len(s) /\ SubSeq(s, i, i + 3) = <<110, 117, 108, 108>>
    THEN <<Tok("null", 0)>> \o Tokens(s, i + 4)
    ELSE <<Tok("bad", 0)>>

\* the kind of token j, "end" after the last token
Kind(toks, j) == IF j <= Len(toks) THEN toks[j].t ELSE "end"

\* Option<(usize, usize)> at token j: null, or "[" number "," number "]".
\* The result is whether it was read, the value, and the token after it.
ParseOption(toks, j) ==
    IF Kind(toks, j) = "null" THEN [ok |-> TRUE, v |-> None, j |-> j + 1]
    ELSE IF /\ Kind(toks, j) = "[" /\ Kind(toks, j + 1) = "num"
            /\ Kind(toks, j + 2) = "," /\ Kind(toks, j + 3) = "num"
            /\ Kind(toks, j + 4) = "]"
    THEN [ok |-> TRUE, v |-> Some(<<toks[j + 1].v, toks[j + 3].v>>), j |-> j + 5]
    ELSE [ok |-> FALSE, v |-> None, j |-> j]

\* the visitor of [T; N]: it takes exactly k more elements, each after a
\* comma except the first; a sequence that ends before that is an invalid
\* length
RECURSIVE ParseElements(_, _, _, _)
ParseElements(toks, j, k, acc) ==
    IF k = 0 THEN [ok |-> TRUE, v |-> acc, j |-> j]
    ELSE IF Len(acc) > 0 /\ Kind(toks, j) # ","
    THEN [ok |-> FALSE, v |-> acc, j |-> j]
    ELSE LET o == ParseOption(toks, IF Len(acc) > 0 THEN j + 1 ELSE j)
         IN  IF o.ok THEN ParseElements(toks, o.j, k - 1, Append(acc, o.v))
             ELSE [ok |-> FALSE, v |-> acc, j |-> j]

\* from_str::<[Option<(usize, usize)>; N]>(s): Some(the N elements) for Ok,
\* None for Err.  end_seq rejects an (N+1)-th element, and Deserializer::end
\* rejects anything but whitespace after the closing bracket.
from_str(s, N) ==
    LET toks == Tokens(s, 1)
        r == ParseElements(toks, 2, N, <<>>)
    IN  IF Kind(toks, 1) = "[" /\ r.ok /\ Kind(toks, r.j) = "]" /\ r.j = Len(toks)
        THEN Some(r.v) ELSE None

(***************************************************************************)
(* serde_json_core::to_slice(&coordinates, &mut buffer[..])                *)
(***************************************************************************)
\* the decimal digits of n
RECURSIVE Digits(_)
Digits(n) == IF n < 10 THEN <<48 + n>> ELSE Append(Digits(n \div 10), 48 + (n % 10))

\* "[r,c]"
CoordinateJson(c) == <<91>> \o Digits(c[1]) \o <<44>> \o Digits(c[2]) \o <<93>>

\* the elements of a sequence, separated by commas
RECURSIVE JoinJson(_)
JoinJson(items) ==
    IF Len(items) = 0 THEN <<>>
    ELSE IF Len(items) = 1 THEN items[1]
    ELSE items[1] \o <<44>> \o JoinJson(Tail(items))

\* CoordinateList serialized: {"coords":[[r,c],...]}; ignore_none keeps the
\* Some entries, which are the first entries of the array
CoordinateListJson(coords) ==
    <<123, 34, 99, 111, 111, 114, 100, 115, 34, 58, 91>>
        \o JoinJson([k \in 1..Len(coords) |-> CoordinateJson(coords[k])])
        \o <<93, 125>>

(***************************************************************************)
(* get_request (src/lib.rs): one turn of its loop, on the outcome of       *)
(* socket.read(request_buffer.buffer_mut())                                *)
(***************************************************************************)
\* TcpSocket::read(buf) with a chunk of 1..buf.len() bytes: the slice passed
\* is the whole buffer, so the bytes land at buf[0..len]
read_into(buf, chunk) ==
    [i \in 1..Len(buf) |-> IF i <= Len(chunk) THEN chunk[i] ELSE buf[i]]

\* Result values: Ok(()), Ok(len) of socket.read, and Err(e)
Ok == <<"Ok">>
ReadOk(len) == <<"Ok", len>>
Err(e) == <<"Err", e>>

\* The errors socket.read can return.  embassy_net::tcp::Error is defined
\* outside this repository; get_request names its ConnectionReset variant
\* and passes on whatever else read returns.
TcpErrors == {"ConnectionReset", "OtherError"}

\* get_request on Ok(0): return Err(embassy_net::tcp::Error::ConnectionReset)
get_request_eof == Err("ConnectionReset")

\* Mutant: every failure of read is returned as ConnectionReset.
get_request_err_reset(e) == Err("ConnectionReset")

\* get_request on Err(e): return Err(e)
get_request_err(e) == Err(e)

\* The Ok(len) arm.  "panic": the slice [..(pos + len)] is out of range;
\* "ok": the loop breaks and get_request returns Ok(()); "more": it reads again.
get_request_turn(buf, pos, chunk) ==
    LET len == Len(chunk)
        filled == read_into(buf, chunk)
        seen_so_far == Slice(filled, 0, pos + len)
    IN  IF pos + len > Len(buf)
        THEN [buf |-> filled, pos |-> pos, then |-> "panic"]
        ELSE IF from_utf8_ok(seen_so_far)
        THEN IF contains_terminator(seen_so_far)
             THEN [buf |-> filled, pos |-> pos, then |-> "ok"]
             ELSE [buf |-> filled, pos |-> pos + len, then |-> "more"]
        ELSE [buf |-> filled, pos |-> pos, then |-> "more"]

(***************************************************************************)
(* Response composition (src/lib.rs)                                       *)
(***************************************************************************)
\* "HTTP/1.1 200 OK\r\n"
STATUS_200 == <<72, 84, 84, 80, 47, 49, 46, 49, 32, 50, 48, 48, 32, 79, 75, 13, 10>>
\* "HTTP/1.1 500 Internal Server Error\r\n"
STATUS_500 == <<72, 84, 84, 80, 47, 49, 46, 49, 32, 53, 48, 48, 32, 73, 110, 116, 101, 114, 110, 97, 108, 32, 83, 101, 114, 118, 101, 114, 32, 69, 114, 114, 111, 114, 13, 10>>
\* "HTTP/1.1 404 Not Found\r\n"
STATUS_404 == <<72, 84, 84, 80, 47, 49, 46, 49, 32, 52, 48, 52, 32, 78, 111, 116, 32, 70, 111, 117, 110, 100, 13, 10>>
\* "Access-Control-Allow-Origin: *\r\n"
HDR_CORS == <<65, 99, 99, 101, 115, 115, 45, 67, 111, 110, 116, 114, 111, 108, 45, 65, 108, 108, 111, 119, 45, 79, 114, 105, 103, 105, 110, 58, 32, 42, 13, 10>>
\* "Content-Type: application/json\r\n"
HDR_JSON == <<67, 111, 110, 116, 101, 110, 116, 45, 84, 121, 112, 101, 58, 32, 97, 112, 112, 108, 105, 99, 97, 116, 105, 111, 110, 47, 106, 115, 111, 110, 13, 10>>
\* "Content-Length: "
HDR_LENGTH == <<67, 111, 110, 116, 101, 110, 116, 45, 76, 101, 110, 103, 116, 104, 58, 32>>

\* write!(response_buffer, ...): core::fmt::write hands the pieces of the
\* formatted text to write_str one by one and stops at the first error
RECURSIVE write_fmt(_, _)
write_fmt(rb, pieces) ==
    IF Len(pieces) = 0 THEN [rb |-> rb, ok |-> TRUE]
    ELSE LET w == write_str(rb, pieces[1])
         IN  IF w.ok THEN write_fmt(w.rb, Tail(pieces)) ELSE w

\* write_response_status: the buffer afterwards (an error is only printed)
write_response_status(rb, status_code) ==
    LET status == IF status_code = 200 THEN STATUS_200
                  ELSE IF status_code = 500 THEN STATUS_500
                  ELSE IF status_code = 404 THEN STATUS_404
                  ELSE <<>>
    IN  write_fmt(rb, <<status>>).rb

\* Mutant: the blank line is written before the header.
write_response_headers_blank_first(rb) ==
    write_fmt(write_fmt(rb, <<CRLF>>).rb, <<HDR_CORS>>).rb

\* write_response_headers: two separate write! calls
write_response_headers(rb) ==
    write_fmt(write_fmt(rb, <<HDR_CORS>>).rb, <<CRLF>>).rb

(***************************************************************************)
(* The grid and the dispatch of one parsed request                         *)
(* (src/bin/tasks/backend.rs)                                              *)
(***************************************************************************)
\* The model's grid has Rows x Cols cells (GridData is [[u8; 80]; 64]).
Rows == 2
Cols == 3
\* Capacity of CoordinateList.coords in the model (256 in the source)
OutCap == 4
\* Length of the array POST /data is decoded into (10 in the source)
BatchSize == 2
\* Capacity of the backend's ResponseBuffer in the model (1024 in the source)
RespCap == 132
\* Length of the serialization buffer in the model (2048 in the source)
SerCap == 35
\* Capacity of the RequestBuffer in the model (512 in the source)
ReqCap == 64

\* [[0; Cols]; Rows]
EmptyGrid == [r \in 0..(Rows - 1) |-> [c \in 0..(Cols - 1) |-> 0]]

\* The GET /data scan from cell number idx on, in row-major order:
\* coordinates.coords[position] = Some((r_idx, c_idx)) while position is
\* below the capacity of the list
RECURSIVE scan_from(_, _, _)
scan_from(grid, idx, coords) ==
    IF idx >= Rows * Cols THEN coords
    ELSE LET r == idx \div Cols
             c == idx % Cols
         IN  IF grid[r][c] # 0 /\ Len(coords) < OutCap
             THEN scan_from(grid, idx + 1, Append(coords, <<r, c>>))
             ELSE scan_from(grid, idx + 1, coords)

scan(grid) == scan_from(grid, 0, <<>>)

\* GET /data: the response buffer afterwards
get_data(grid, rb) ==
    LET body == CoordinateListJson(scan(grid))
        len == Len(body)
        rb1 == write_response_status(rb, 200)
        rb2 == write_fmt(rb1, <<HDR_JSON>>).rb
        rb3 == write_fmt(rb2, <<HDR_LENGTH, Digits(len), CRLF>>).rb
        rb4 == write_response_headers(rb3)
    IN  IF len > SerCap
        THEN write_response_headers(write_response_status(rb, 500))
        ELSE write(rb4, body).rb

\* ScreenSignal
Coordinate(coord_list) == [tag |-> "Coordinate", coords |-> coord_list]
Clear == [tag |-> "Clear", coords |-> <<>>]

\* coord_list.iter().flatten(): the Some entries, in order
RECURSIVE flatten(_)
flatten(list) ==
    IF Len(list) = 0 THEN <<>>
    ELSE IF list[1] = None THEN flatten(Tail(list))
    ELSE <<list[1][1]>> \o flatten(Tail(list))

\* Mutant: the grid holds the cells of the batch and no others.
set_cells_only(grid, coords) ==
    [grid |-> [r \in 0..(Rows - 1) |-> [c \in 0..(Cols - 1) |->
                 IF \E k \in 1..Len(coords) : coords[k] = <<r, c>> THEN 1 ELSE 0]],
     panic |-> FALSE]

\* grid_data.data[coordinate.0][coordinate.1] = 1 for each coordinate in
\* turn; an index outside the array panics
RECURSIVE set_cells(_, _)
set_cells(grid, coords) ==
    IF Len(coords) = 0 THEN [grid |-> grid, panic |-> FALSE]
    ELSE LET r == coords[1][1]
             c == coords[1][2]
         IN  IF r >= Rows \/ c >= Cols THEN [grid |-> grid, panic |-> TRUE]
             ELSE set_cells([grid EXCEPT ![r][c] = 1], Tail(coords))

(* The arms of match request.method / match request.path.  Each yields the *)
(* grid afterwards, the ScreenSignal handed to signal.signal (None when    *)
(* the arm signals nothing), the response buffer afterwards, and whether   *)
(* the arm panicked.                                                       *)

\* Mutant: a body that does not decode is answered with 404.
post_data_rejects(grid, rb, data) ==
    IF from_str(data, BatchSize) = None
    THEN [grid |-> grid, pub |-> None,
          rb |-> write_response_headers(write_response_status(rb, 404)),
          panic |-> FALSE]
    ELSE [grid |-> grid, pub |-> None,
          rb |-> write_response_headers(write_response_status(rb, 200)),
          panic |-> FALSE]

\* POST /data
post_data(grid, rb, data) ==
    LET decoded == from_str(data, BatchSize)
        cells == set_cells(grid, flatten(decoded[1]))
        reply == write_response_headers(write_response_status(rb, 200))
    IN  IF decoded = None
        THEN [grid |-> grid, pub |-> None, rb |-> reply, panic |-> FALSE]
        ELSE IF cells.panic
        THEN [grid |-> cells.grid, pub |-> Some(Coordinate(decoded[1])),
              rb |-> rb, panic |-> TRUE]
        ELSE [grid |-> cells.grid, pub |-> Some(Coordinate(decoded[1])),
              rb |-> reply, panic |-> FALSE]

\* Mutant: the grid is cleared but Clear is not signalled.
post_clear_silent(grid, rb) ==
    [grid |-> EmptyGrid, pub |-> None,
     rb |-> write_response_headers(write_response_status(rb, 200)),
     panic |-> FALSE]

\* POST /clear
post_clear(grid, rb) ==
    [grid |-> EmptyGrid, pub |-> Some(Clear),
     rb |-> write_response_headers(write_response_status(rb, 200)),
     panic |-> FALSE]

\* Mutant: an unknown route resets the grid.
not_found_resets(grid, rb) ==
    [grid |-> EmptyGrid, pub |-> None,
     rb |-> write_response_headers(write_response_status(rb, 404)),
     panic |-> FALSE]

\* every other method and path
not_found(grid, rb) ==
    [grid |-> grid, pub |-> None,
     rb |-> write_response_headers(write_response_status(rb, 404)),
     panic |-> FALSE]

\* Mutant: GET /data empties the grid and signals Clear.
dispatch_get_clears(req, grid, rb) ==
    IF req.method = Some(GET)
    THEN IF req.path = Some(PATH_DATA)
         THEN [grid |-> EmptyGrid, pub |-> Some(Clear), rb |-> get_data(grid, rb),
               panic |-> FALSE]
         ELSE not_found(grid, rb)
    ELSE IF req.method = Some(POST)
    THEN IF req.path = Some(PATH_DATA) THEN post_data(grid, rb, req.data[1])
         ELSE IF req.path = Some(PATH_CLEAR) THEN post_clear(grid, rb)
         ELSE not_found(grid, rb)
    ELSE not_found(grid, rb)

\* match request.method { ... }
dispatch(req, grid, rb) ==
    IF req.method = Some(GET)
    THEN IF req.path = Some(PATH_DATA)
         THEN [grid |-> grid, pub |-> None, rb |-> get_data(grid, rb), panic |-> FALSE]
         ELSE not_found(grid, rb)
    ELSE IF req.method = Some(POST)
    THEN IF req.path = Some(PATH_DATA) THEN post_data(grid, rb, req.data[1])
         ELSE IF req.path = Some(PATH_CLEAR) THEN post_clear(grid, rb)
         ELSE not_found(grid, rb)
    ELSE not_found(grid, rb)

(***************************************************************************)
(* Signal<NoopRawMutex, ScreenSignal>: one slot, None when nothing is      *)
(* pending                                                                 *)
(***************************************************************************)
\* Mutant: a value that is pending is kept, the new one is dropped.
signal_keep_pending(slot, value) == IF slot = None THEN Some(value) ELSE slot

\* Signal::signal: the slot afterwards
signal_signal(slot, value) == Some(value)

\* Mutant: wait empties the slot and returns Clear whatever was pending.
signal_wait_drops(slot) == [value |-> Clear, slot |-> None]

\* Signal::wait, when it returns: the value taken, and the slot afterwards
signal_wait(slot) == [value |-> slot[1], slot |-> None]

\* Signal::reset
signal_reset(slot) == None

(***************************************************************************)
(* The requests and the pieces of requests that a read can deliver         *)
(***************************************************************************)
\* " HTTP/1.1"
HTTP11 == <<32, 72, 84, 84, 80, 47, 49, 46, 49>>
\* "Host: x"
HOST_X == <<72, 111, 115, 116, 58, 32, 120>>
\* "PUT"
PUT == <<80, 85, 84>>

\* METHOD SP PATH " HTTP/1.1" CRLF "Host: x" CRLF CRLF body
Request(method, path, body) ==
    method \o <<SP>> \o path \o HTTP11 \o CRLF \o HOST_X \o CRLF \o CRLF \o body

\* "GET /" CRLF, then h header lines "h" CRLF, then CRLF
RECURSIVE HeaderLines(_)
HeaderLines(h) == IF h = 0 THEN <<>> ELSE <<104>> \o CRLF \o HeaderLines(h - 1)
ManyHeaders(h) == GET \o <<SP, 47>> \o CRLF \o HeaderLines(h) \o CRLF

\* null, or "[r,c]"
OptionJson(o) == IF o = None THEN <<110, 117, 108, 108>> ELSE CoordinateJson(o[1])
\* a JSON array of coordinates and nulls
BatchJson(items) ==
    <<91>> \o JoinJson([k \in 1..Len(items) |-> OptionJson(items[k])]) \o <<93>>

\* items followed by nulls up to the length of the batch
PadNone(items) == items \o [k \in 1..(BatchSize - Len(items)) |-> None]

\* Batches of exactly BatchSize entries whose coordinates are all in the grid
B_12_01 == PadNone(<<Some(<<1, 2>>), Some(<<0, 1>>)>>)
B_00 == PadNone(<<Some(<<0, 0>>)>>)
B_10_11 == PadNone(<<Some(<<1, 0>>), Some(<<1, 1>>)>>)
B_null == PadNone(<<>>)
InBatches == {B_12_01, B_00, B_10_11, B_null}
\* Batches of exactly BatchSize entries with a row or a column outside the grid
B_row == PadNone(<<Some(<<Rows, 0>>), Some(<<0, 1>>)>>)
B_col == PadNone(<<Some(<<0, 2>>), Some(<<0, Cols>>)>>)
OutBatches == {B_row, B_col}
\* One entry fewer and one entry more than BatchSize
B_short == [k \in 1..(BatchSize - 1) |-> Some(<<1, k>>)]
B_long == [k \in 1..(BatchSize + 1) |-> Some(<<0, 0>>)]

\* "POST /data", the start of a request, without the end of the headers
PostDataStart == POST \o <<SP>> \o PATH_DATA
\* " HTTP/1.1" CRLF CRLF, the rest of that request
PostDataRest == HTTP11 \o CRLF \o CRLF
\* bytes that are not valid UTF-8
BadBytes == <<BAD, BAD, BAD, BAD, BAD, BAD>>
\* text without a line end, longer than half of the request buffer
Filler == [i \in 1..(ReqCap \div 2 + 1) |-> 120]

\* Whole requests, each delivered by one read
WholeRequests ==
    {Request(GET, PATH_DATA, <<>>), Request(POST, PATH_CLEAR, <<>>),
     Request(GET, PATH_CLEAR, <<>>), Request(PUT, PATH_DATA, <<>>),
     Request(POST, PATH_DATA, <<>>), Request(POST, PATH_DATA, <<120>>),
     ManyHeaders(HeaderCap + 1)}
    \cup {Request(POST, PATH_DATA, BatchJson(b)) :
            b \in InBatches \cup OutBatches \cup {B_short, B_long}}

\* Pieces of requests
Pieces == {PostDataStart, PostDataRest, BadBytes, TERMINATOR, Filler}

\* What a read can deliver to the backend
Chunks == WholeRequests \cup Pieces

\* The requests of the runs in which the screen task takes part
SystemChunks ==
    {Request(GET, PATH_DATA, <<>>), Request(POST, PATH_CLEAR, <<>>),
     Request(GET, PATH_CLEAR, <<>>),
     Request(POST, PATH_DATA, BatchJson(B_12_01)),
     Request(POST, PATH_DATA, BatchJson(B_00)), PostDataStart}

\* Data reads per connection in the model
MaxReads == 2

(***************************************************************************)
(* State                                                                   *)
(***************************************************************************)
\* A ResponseBuffer driven by arbitrary write and write_str calls
VARIABLES tb,      \* the ResponseBuffer under test
          tprev,   \* the buffer before the last call
          targ,    \* the argument of the last call
          tcall,   \* the last call: "new", "write" or "write_str"
          tok      \* whether the last call returned Ok

\* A ResponseBuffer the response is composed into, call by call
VARIABLES crb,     \* the ResponseBuffer
          cprev,   \* the buffer before the last call
          ctext,   \* the whole text the last call was to append
          ccall    \* the last call: "new", "fill", "status", "length", "headers"

\* A Request driven by set_request_buffer and parse_request
VARIABLES prb,     \* Request::rb
          preq,    \* method, path, headers and data of the Request
          pstate   \* "new", "set", "parsed", or "panic" once a call panicked

\* backend::task_loop
VARIABLES bpc,             \* the await point the task is suspended at
          request_buffer,  \* request_buffer.buf
          gpos,            \* pos of get_request
          nreads,          \* data reads of this connection so far
          request,         \* the parsed Request
          response_buffer,
          grid_data        \* grid_data.data

\* web::task_loop
VARIABLES file_bytes       \* the contents of the file to send after the headers

\* The client of the connection
VARIABLES wire             \* bytes the client sent that no read delivered yet

\* Shared by the tasks
VARIABLES signal,          \* the slot of the Signal
          panicked         \* a task panicked: the panic handler halts the chip

\* screen::task_loop
VARIABLES display,         \* cells drawn on the display since it was cleared
          seen             \* what the last wait() returned, and the values
                           \* signalled before it returned

\* History of the connection the backend serves
VARIABLES blog,            \* socket operations completed since accept was called
          bstream,         \* bytes the reads of this connection delivered
          bsent,           \* bytes handed to write_all for this connection
          sockread,        \* what the last socket.read of get_request returned
          gret,            \* what get_request returned to task_loop
          pubs             \* the values signalled since wait() last returned,
                           \* the last two of them when there are more

\* Capacity S of the buffer under test (S is a const generic parameter).
BufCap == 3
\* Capacity S of the buffer a response is composed into call by call
ComposeCap == 40

bufvars == <<tb, tprev, targ, tcall, tok>>
composevars == <<crb, cprev, ctext, ccall>>
parsevars == <<prb, preq, pstate>>
localvars == <<request_buffer, gpos, nreads, request, response_buffer>>
histvars == <<blog, bstream, bsent, sockread, gret>>
backendvars == <<bpc, localvars, grid_data, histvars>>
screenvars == <<display, seen>>
vars == <<bufvars, composevars, parsevars, backendvars, file_bytes, wire,
          signal, panicked, pubs, screenvars>>

\* The locals task_loop creates after accept, before any read
EmptyLocals ==
    /\ request_buffer' = Zeros(ReqCap)
    /\ gpos' = 0
    /\ nreads' = 0
    /\ request' = Request_new
    /\ response_buffer' = new(RespCap)

Init ==
    /\ tb = new(BufCap) /\ tprev = new(BufCap) /\ targ = <<>>
    /\ tcall = "new" /\ tok = TRUE
    /\ crb = new(ComposeCap) /\ cprev = new(ComposeCap) /\ ctext = <<>>
    /\ ccall = "new"
    /\ prb = None /\ preq = Request_new /\ pstate = "new"
    /\ bpc = "accept"
    /\ request_buffer = Zeros(ReqCap) /\ gpos = 0 /\ nreads = 0
    /\ request = Request_new /\ response_buffer = new(RespCap)
    /\ grid_data = EmptyGrid
    /\ file_bytes = None
    /\ wire = <<>>
    /\ signal = None /\ panicked = FALSE
    /\ display = {} /\ seen = None
    /\ blog = <<>> /\ bstream = <<>> /\ bsent = <<>>
    /\ sockread = None /\ gret = None
    /\ pubs = <<>>

(***************************************************************************)
(* A ResponseBuffer<BufCap> driven by arbitrary write and write_str calls. *)
(***************************************************************************)
\* The bytes the calls are made of: zero, and an ASCII letter.
BufBytes == {0, 97}

RECURSIVE SeqsUpTo(_, _)
SeqsUpTo(A, n) ==
    IF n = 0 THEN {<<>>}
    ELSE LET shorter == SeqsUpTo(A, n - 1)
         IN  shorter \cup {Append(s, a) : s \in {t \in shorter : Len(t) = n - 1}, a \in A}

NotBuf ==
    UNCHANGED <<composevars, parsevars, backendvars, file_bytes, wire, signal,
                panicked, pubs, screenvars>>

TbWrite ==
    /\ \E bytes \in SeqsUpTo(BufBytes, BufCap + 1) :
        /\ tprev' = tb
        /\ targ' = bytes
        /\ tcall' = "write"
        /\ tb' = write(tb, bytes).rb
        /\ tok' = write(tb, bytes).ok
    /\ NotBuf

TbWriteStr ==
    /\ \E bytes \in SeqsUpTo(BufBytes \ {0}, BufCap + 1) :
        /\ tprev' = tb
        /\ targ' = bytes
        /\ tcall' = "write_str"
        /\ tb' = write_str(tb, bytes).rb
        /\ tok' = write_str(tb, bytes).ok
    /\ NotBuf

\* A fresh buffer replaces the old one (ResponseBuffer::<S>::new()).
TbNew ==
    /\ tcall # "new"
    /\ tprev' = tb
    /\ targ' = <<>>
    /\ tcall' = "new"
    /\ tb' = new(BufCap)
    /\ tok' = TRUE
    /\ NotBuf

BufNext == TbWrite \/ TbWriteStr \/ TbNew

SpecBuf == Init /\ [][BufNext]_vars

(***************************************************************************)
(* A ResponseBuffer<ComposeCap> the calls of the response composition are  *)
(* made on: write_response_status, the write! of the Content-Length line,  *)
(* write_response_headers, and write for what is in the buffer before.     *)
(***************************************************************************)
\* the n bytes written before the call under test
FillBytes(n) == [i \in 1..n |-> 120]

NotCompose ==
    UNCHANGED <<bufvars, parsevars, backendvars, file_bytes, wire, signal, panicked,
                pubs, screenvars>>

\* ResponseBuffer::<S>::new()
CNew ==
    /\ ccall # "new"
    /\ cprev' = crb
    /\ ctext' = <<>>
    /\ ccall' = "new"
    /\ crb' = new(ComposeCap)
    /\ NotCompose

\* response_buffer.write(bytes), as the first call on the buffer
CFill ==
    /\ ccall = "new"
    /\ \E n \in 1..ComposeCap :
        /\ cprev' = crb
        /\ ctext' = FillBytes(n)
        /\ ccall' = "fill"
        /\ crb' = write(crb, FillBytes(n)).rb
    /\ NotCompose

\* write_response_status(&mut response_buffer, code)
CStatus ==
    /\ \E code \in {200, 404, 500, 201} :
        /\ cprev' = crb
        /\ ctext' = buffer(write_response_status(new(ComposeCap), code))
        /\ ccall' = "status"
        /\ crb' = write_response_status(crb, code)
    /\ NotCompose

\* write!(&mut response_buffer, "Content-Length: {}\r\n", len)
CLength ==
    /\ \E len \in {0, 13, 120} :
        /\ cprev' = crb
        /\ ctext' = HDR_LENGTH \o Digits(len) \o CRLF
        /\ ccall' = "length"
        /\ crb' = write_fmt(crb, <<HDR_LENGTH, Digits(len), CRLF>>).rb
    /\ NotCompose

\* write_response_headers(&mut response_buffer)
CHeaders ==
    /\ cprev' = crb
    /\ ctext' = HDR_CORS \o CRLF
    /\ ccall' = "headers"
    /\ crb' = write_response_headers(crb)
    /\ NotCompose

ComposeNext == CNew \/ CFill \/ CStatus \/ CLength \/ CHeaders

SpecCompose == Init /\ [][ComposeNext]_vars

(***************************************************************************)
(* A Request driven by set_request_buffer and parse_request.               *)
(***************************************************************************)
\* Length of the buffers whose every content is tried
ParseLen == 4
\* The bytes those contents are made of
ParseBytes == {CR, LF, SP, 97, NUL, BAD}

\* A RequestBuffer holding the bytes of one read
Filled(chunk) == read_into(Zeros(ReqCap), chunk)

\* set_request_buffer is given every buffer of ParseLen bytes, and buffers
\* of ReqCap bytes holding the requests the backend is sent and requests
\* with up to HeaderCap + 2 header lines.
ParseInputs ==
    {s \in SeqsUpTo(ParseBytes, ParseLen) : Len(s) = ParseLen}
    \cup {Filled(c) : c \in Chunks}
    \cup {Filled(ManyHeaders(h)) : h \in 0..(HeaderCap + 2)}

NotParse ==
    UNCHANGED <<bufvars, composevars, backendvars, file_bytes, wire, signal,
                panicked, pubs, screenvars>>

\* Request::new()
PNew ==
    /\ pstate # "new"
    /\ prb' = None
    /\ preq' = Request_new
    /\ pstate' = "new"
    /\ NotParse

\* request.set_request_buffer(&request_buffer)
PSetRequestBuffer ==
    /\ pstate = "new"
    /\ \E b \in ParseInputs : prb' = Some(b)
    /\ pstate' = "set"
    /\ UNCHANGED preq
    /\ NotParse

\* request.parse_request()
PParseRequest ==
    /\ pstate \in {"new", "set"}
    /\ LET p == parse_request(preq, prb)
       IN  /\ preq' = p.req
           /\ pstate' = IF p.panic THEN "panic" ELSE "parsed"
    /\ UNCHANGED prb
    /\ NotParse

ParseNext == PNew \/ PSetRequestBuffer \/ PParseRequest

SpecParse == Init /\ [][ParseNext]_vars

(***************************************************************************)
(* backend::task_loop.  The task runs from one await point to the next in  *)
(* one step; bpc names the await point it is suspended at.                 *)
(***************************************************************************)
NotBackend ==
    UNCHANGED <<bufvars, composevars, parsevars, file_bytes, wire, screenvars>>

\* signal.signal(value) when an arm signals, with the history of signals
Publish(pub) ==
    IF pub = None
    THEN UNCHANGED <<signal, pubs>>
    ELSE /\ signal' = signal_signal(signal, pub[1])
         /\ pubs' = IF Len(pubs) < 2 THEN Append(pubs, pub[1])
                    ELSE <<pubs[2], pub[1]>>

\* socket.accept(BACKEND_ENDPOINT).await returns Ok: the buffers are
\* created and get_request makes its first read
BackendAcceptOk ==
    /\ bpc = "accept" /\ ~panicked
    /\ EmptyLocals
    /\ bpc' = "read"
    /\ blog' = <<"accept">>
    /\ bstream' = <<>>
    /\ bsent' = <<>>
    /\ sockread' = None
    /\ gret' = None
    /\ UNCHANGED <<grid_data, signal, panicked, pubs>>
    /\ NotBackend

\* socket.accept returns Err: close_socket starts with socket.flush().await
BackendAcceptErr ==
    /\ bpc = "accept" /\ ~panicked
    /\ bpc' = "cs_flush"
    /\ blog' = <<"accept_err">>
    /\ bstream' = <<>>
    /\ bsent' = <<>>
    /\ sockread' = None
    /\ gret' = None
    /\ UNCHANGED <<localvars, grid_data, signal, panicked, pubs>>
    /\ NotBackend

\* close_socket: flush returned (Ok or Err), Timer::after(500 ms) is awaited
CloseSocketFlush ==
    /\ bpc = "cs_flush" /\ ~panicked
    /\ bpc' = "cs_delay1"
    /\ blog' = Append(blog, "flush")
    /\ UNCHANGED <<localvars, grid_data, bstream, bsent, sockread, gret,
                 signal, panicked, pubs>>
    /\ NotBackend

\* close_socket: socket.close(), then the second Timer::after is awaited
CloseSocketClose ==
    /\ bpc = "cs_delay1" /\ ~panicked
    /\ bpc' = "cs_delay2"
    /\ blog' = Append(blog, "close")
    /\ UNCHANGED <<localvars, grid_data, bstream, bsent, sockread, gret,
                 signal, panicked, pubs>>
    /\ NotBackend

\* close_socket: socket.abort(); continue
CloseSocketAbort ==
    /\ bpc = "cs_delay2" /\ ~panicked
    /\ bpc' = "accept"
    /\ blog' = Append(blog, "abort")
    /\ UNCHANGED <<localvars, grid_data, bstream, bsent, sockread, gret,
                 signal, panicked, pubs>>
    /\ NotBackend

\* socket.read returns Ok(0) or Err(e): get_request returns Err and the
\* loop continues with the next accept
ReadFailed(how, read, ret) ==
    /\ bpc' = "accept"
    /\ EmptyLocals
    /\ blog' = Append(blog, how)
    /\ sockread' = Some(read)
    /\ gret' = Some(ret)
    /\ UNCHANGED <<grid_data, bstream, bsent, signal, panicked, pubs>>
    /\ NotBackend

BackendReadEof ==
    /\ bpc = "read" /\ ~panicked
    /\ ReadFailed("eof", ReadOk(0), get_request_eof)

BackendReadErr ==
    /\ bpc = "read" /\ ~panicked
    /\ \E e \in TcpErrors : ReadFailed("err", Err(e), get_request_err(e))

\* socket.read returns Ok(len) with the bytes of chunk.  get_request either
\* reads again or returns Ok, and then the request is parsed, dispatched and
\* send_response_buffer awaits write_all.
ReadTurn(chunk) ==
        LET t == get_request_turn(request_buffer, gpos, chunk)
            p == parse_request(Request_new, Some(t.buf))
            d == dispatch(p.req, grid_data, response_buffer)
        IN  /\ request_buffer' = t.buf
            /\ gpos' = t.pos
            /\ nreads' = nreads + 1
            /\ bstream' = bstream \o chunk
            /\ blog' = Append(blog, "read")
            /\ UNCHANGED bsent
            /\ sockread' = Some(ReadOk(Len(chunk)))
            /\ gret' = IF t.then = "ok" THEN Some(Ok) ELSE gret
            /\ IF t.then = "panic"
               THEN /\ panicked' = TRUE
                    /\ UNCHANGED <<bpc, request, response_buffer, grid_data,
                                   signal, pubs>>
               ELSE IF t.then = "more"
               THEN UNCHANGED <<bpc, request, response_buffer, grid_data,
                                signal, pubs, panicked>>
               ELSE IF p.panic
               THEN /\ panicked' = TRUE
                    /\ request' = p.req
                    /\ UNCHANGED <<bpc, response_buffer, grid_data, signal, pubs>>
               ELSE /\ request' = p.req
                    /\ Publish(d.pub)
                    /\ grid_data' = d.grid
                    /\ response_buffer' = d.rb
                    /\ panicked' = d.panic
                    /\ bpc' = IF d.panic THEN bpc ELSE "write"

\* socket.read delivers one of chunks
BackendRead(chunks) ==
    /\ bpc = "read" /\ ~panicked
    /\ nreads < MaxReads
    /\ \E chunk \in chunks : ReadTurn(chunk)
    /\ NotBackend

\* write_all returned (Ok: the bytes were handed to the socket; Err: they
\* were not), socket.flush() is awaited
BackendWrite ==
    /\ bpc = "write" /\ ~panicked
    /\ \E ok \in BOOLEAN : bsent' = IF ok THEN buffer(response_buffer) ELSE <<>>
    /\ bpc' = "flush"
    /\ blog' = Append(blog, "write")
    /\ UNCHANGED <<localvars, grid_data, bstream, sockread, gret,
                   signal, panicked, pubs>>
    /\ NotBackend

\* flush returned (Ok or Err), Timer::after(50 ms) is awaited
BackendFlush ==
    /\ bpc = "flush" /\ ~panicked
    /\ bpc' = "delay1"
    /\ blog' = Append(blog, "flush")
    /\ UNCHANGED <<localvars, grid_data, bstream, bsent, sockread, gret,
                 signal, panicked, pubs>>
    /\ NotBackend

\* socket.close(), then the second Timer::after is awaited
BackendClose ==
    /\ bpc = "delay1" /\ ~panicked
    /\ bpc' = "delay2"
    /\ blog' = Append(blog, "close")
    /\ UNCHANGED <<localvars, grid_data, bstream, bsent, sockread, gret,
                 signal, panicked, pubs>>
    /\ NotBackend

\* socket.abort(), and the loop returns to accept
BackendAbort ==
    /\ bpc = "delay2" /\ ~panicked
    /\ bpc' = "accept"
    /\ EmptyLocals
    /\ blog' = Append(blog, "abort")
    /\ UNCHANGED <<grid_data, bstream, bsent, sockread, gret,
                   signal, panicked, pubs>>
    /\ NotBackend

(***************************************************************************)
(* backend_loop of bin/async_main.rs, the binary that holds both servers   *)
(* in one file.  It has its own get_request and send_response_buffer, with *)
(* the bodies of the ones in lib.rs, reads the request line and the body   *)
(* out of the buffer itself, and has no Signal: its arms are those of      *)
(* backend::task_loop without the signalling.                              *)
(***************************************************************************)
\* the loop over lines.by_ref() that stops after the empty line, then
\* lines.next().unwrap_or("").trim_matches(char::from(0))
main_data(lines) ==
    LET rest == Tail(lines)
        blanks == {j \in 1..Len(rest) : Len(rest[j]) = 0}
    IN  IF blanks # {} /\ Min(blanks) < Len(rest)
        THEN trim_matches_nul(rest[Min(blanks) + 1])
        ELSE <<>>

\* match method { ... }: the grid and the response buffer afterwards, and
\* whether an arm panicked
main_dispatch(method, path, lines, grid, rb) ==
    LET posted == post_data(grid, rb, main_data(lines))
        reply(code) == write_response_headers(write_response_status(rb, code))
    IN  IF method = GET /\ path = PATH_DATA
        THEN [grid |-> grid, rb |-> get_data(grid, rb), panic |-> FALSE]
        ELSE IF method = POST /\ path = PATH_DATA
        THEN [grid |-> posted.grid, rb |-> posted.rb, panic |-> posted.panic]
        ELSE IF method = POST /\ path = PATH_CLEAR
        THEN [grid |-> EmptyGrid, rb |-> reply(200), panic |-> FALSE]
        ELSE [grid |-> grid, rb |-> reply(404), panic |-> FALSE]

\* socket.accept(BACKEND_ENDPOINT).await returns Ok
MainAcceptOk == BackendAcceptOk

\* socket.accept returns Err: the error is printed and the loop continues
\* with the next accept
MainAcceptErr ==
    /\ bpc = "accept" /\ ~panicked
    /\ bpc' = "accept"
    /\ blog' = <<"accept_err">>
    /\ bstream' = <<>>
    /\ bsent' = <<>>
    /\ sockread' = None
    /\ gret' = None
    /\ UNCHANGED <<localvars, grid_data, signal, panicked, pubs>>
    /\ NotBackend

\* get_request returns Err: continue
MainReadEof == BackendReadEof

MainReadErr == BackendReadErr

\* socket.read returns Ok(len).  When get_request returns Ok, the buffer is
\* decoded (continue when it is not valid text), the request line is split
\* and the request is dispatched.
MainRead ==
    /\ bpc = "read" /\ ~panicked
    /\ nreads < MaxReads
    /\ \E chunk \in Chunks :
        LET t == get_request_turn(request_buffer, gpos, chunk)
            lines == split_crlf(t.buf)
            method == split_space_first(lines[1])
            path == split_space_second(lines[1])
            d == main_dispatch(method, path, lines, grid_data, response_buffer)
        IN  /\ bstream' = bstream \o chunk
            /\ sockread' = Some(ReadOk(Len(chunk)))
            /\ gret' = IF t.then = "ok" THEN Some(Ok) ELSE gret
            /\ UNCHANGED <<bsent, request, signal, pubs>>
            /\ IF t.then = "panic"
               THEN /\ panicked' = TRUE
                    /\ request_buffer' = t.buf
                    /\ blog' = Append(blog, "read")
                    /\ UNCHANGED <<bpc, gpos, nreads, response_buffer, grid_data>>
               ELSE IF t.then = "more"
               THEN /\ request_buffer' = t.buf
                    /\ gpos' = t.pos
                    /\ nreads' = nreads + 1
                    /\ blog' = Append(blog, "read")
                    /\ UNCHANGED <<bpc, response_buffer, grid_data, panicked>>
               ELSE IF ~from_utf8_ok(t.buf)
               THEN /\ bpc' = "accept"
                    /\ request_buffer' = Zeros(ReqCap)
                    /\ gpos' = 0
                    /\ nreads' = 0
                    /\ response_buffer' = new(RespCap)
                    /\ blog' = Append(Append(blog, "read"), "utf8")
                    /\ UNCHANGED <<grid_data, panicked>>
               ELSE /\ request_buffer' = t.buf
                    /\ gpos' = t.pos
                    /\ nreads' = nreads + 1
                    /\ blog' = Append(blog, "read")
                    /\ grid_data' = d.grid
                    /\ response_buffer' = d.rb
                    /\ panicked' = d.panic
                    /\ bpc' = IF d.panic THEN bpc ELSE "write"
    /\ NotBackend

\* send_response_buffer, flush, close and abort, as in backend::task_loop
MainWrite == BackendWrite

MainFlush == BackendFlush

MainClose == BackendClose

MainAbort == BackendAbort

MainNext ==
    \/ MainAcceptOk \/ MainAcceptErr
    \/ MainReadEof \/ MainReadErr \/ MainRead
    \/ MainWrite \/ MainFlush \/ MainClose \/ MainAbort

SpecMain == Init /\ [][MainNext]_vars

(***************************************************************************)
(* The backend with a client whose request the transport delivers in       *)
(* pieces: each socket.read returns the next bytes of the request, cut     *)
(* after the method and path, after the blank line, or at its end.         *)
(***************************************************************************)
\* The requests of the client
SplitBatches == {B_00, B_12_01, B_10_11}
SplitRequests ==
    {Request(POST, PATH_DATA, BatchJson(b)) : b \in SplitBatches}
    \cup {Request(POST, PATH_CLEAR, <<>>)}

\* what the client sent on this connection
Sent == bstream \o wire

\* the number of bytes up to the end of the blank line
HeadersEnd(b) ==
    CHOOSE k \in 4..Len(b) :
        /\ SubSeq(b, k - 3, k) = TERMINATOR
        /\ \A j \in 4..(k - 1) : SubSeq(b, j - 3, j) # TERMINATOR

\* where a read can end
SplitCuts(b) == {Len(PostDataStart), HeadersEnd(b), Len(b)}

\* socket.accept returns Ok and the client sends its request
SplitAccept ==
    /\ bpc = "accept" /\ ~panicked
    /\ EmptyLocals
    /\ bpc' = "read"
    /\ blog' = <<"accept">>
    /\ bstream' = <<>>
    /\ bsent' = <<>>
    /\ sockread' = None
    /\ gret' = None
    /\ wire' \in SplitRequests
    /\ UNCHANGED <<grid_data, signal, panicked, pubs>>
    /\ UNCHANGED <<bufvars, composevars, parsevars, file_bytes, screenvars>>

\* socket.read returns Ok(len) with the next bytes of the request
SplitRead ==
    /\ bpc = "read" /\ ~panicked
    /\ \E cut \in SplitCuts(Sent) :
        /\ cut > Len(bstream)
        /\ ReadTurn(SubSeq(Sent, Len(bstream) + 1, cut))
        /\ wire' = SubSeq(Sent, cut + 1, Len(Sent))
    /\ UNCHANGED <<bufvars, composevars, parsevars, file_bytes, screenvars>>

\* the bytes no read has delivered are dropped with the connection
SplitAbort ==
    /\ bpc = "delay2" /\ ~panicked
    /\ bpc' = "accept"
    /\ EmptyLocals
    /\ blog' = Append(blog, "abort")
    /\ wire' = <<>>
    /\ UNCHANGED <<grid_data, bstream, bsent, sockread, gret,
                   signal, panicked, pubs>>
    /\ UNCHANGED <<bufvars, composevars, parsevars, file_bytes, screenvars>>

SplitNext ==
    \/ SplitAccept \/ SplitRead
    \/ BackendWrite \/ BackendFlush \/ BackendClose \/ SplitAbort

SpecSplit == Init /\ [][SplitNext]_vars

(***************************************************************************)
(* web::task_loop, the server of the static files.  It shares get_request, *)
(* send_response_buffer and close_socket with the backend and has the same *)
(* loop; after the response buffer it sends the bytes of the file.         *)
(***************************************************************************)
\* "/" and "/css/style.css"
PATH_ROOT == <<47>>
PATH_CSS == <<47, 99, 115, 115, 47, 115, 116, 121, 108, 101, 46, 99, 115, 115>>
\* "Content-Type: ", "text/html" and "text/css"
HDR_TYPE == <<67, 111, 110, 116, 101, 110, 116, 45, 84, 121, 112, 101, 58, 32>>
TEXT_HTML == <<116, 101, 120, 116, 47, 104, 116, 109, 108>>
TEXT_CSS == <<116, 101, 120, 116, 47, 99, 115, 115>>
\* The bytes of index.html and css/style.css (include_bytes!), in the model
\* "<html>" and "p{}"
INDEX == [contents |-> <<60, 104, 116, 109, 108, 62>>, content_type |-> TEXT_HTML]
CSS == [contents |-> <<112, 123, 125>>, content_type |-> TEXT_CSS]

\* path_to_file: Some(file), or None for WebServeFile::NotFound
path_to_file(path) ==
    IF path = PATH_ROOT THEN Some(INDEX)
    ELSE IF path = PATH_CSS THEN Some(CSS)
    ELSE None

\* match method { ... }: the response buffer and file_bytes afterwards
web_dispatch(method, path, rb) ==
    LET file == path_to_file(path)
        rb1 == write_response_status(rb, 200)
        rb2 == write_fmt(rb1, <<HDR_TYPE, file[1].content_type, CRLF>>).rb
        rb3 == write_fmt(rb2, <<HDR_LENGTH, Digits(Len(file[1].contents)), CRLF>>).rb
    IN  IF method = GET /\ file # None
        THEN [rb |-> write_fmt(rb3, <<CRLF>>).rb, file_bytes |-> Some(file[1].contents)]
        ELSE [rb |-> write_fmt(write_response_status(rb, 404), <<CRLF>>).rb,
              file_bytes |-> None]

\* What a read can deliver to the web server
WebChunks ==
    {Request(GET, PATH_ROOT, <<>>), Request(GET, PATH_CSS, <<>>),
     Request(GET, PATH_DATA, <<>>), Request(POST, PATH_ROOT, <<>>),
     PostDataStart, BadBytes, TERMINATOR}

\* socket.accept(WEB_ENDPOINT).await returns Ok
WebAcceptOk == BackendAcceptOk

\* socket.accept returns Err: close_socket, continue
WebAcceptErr == BackendAcceptErr

\* get_request returns Err: continue
WebReadEof == BackendReadEof

WebReadErr == BackendReadErr

\* the loop continues with the next accept, its locals dropped
WebContinue ==
    /\ bpc' = "accept"
    /\ request_buffer' = Zeros(ReqCap)
    /\ gpos' = 0
    /\ nreads' = 0
    /\ response_buffer' = new(RespCap)

\* socket.read returns Ok(len).  When get_request returns Ok, the buffer is
\* decoded (continue when it is not valid text), the request line is split
\* and the response is composed.
WebRead ==
    /\ bpc = "read" /\ ~panicked
    /\ nreads < MaxReads
    /\ \E chunk \in WebChunks :
        LET t == get_request_turn(request_buffer, gpos, chunk)
            lines == split_crlf(t.buf)
            method == split_space_first(lines[1])
            path == split_space_second(lines[1])
            d == web_dispatch(method, path, response_buffer)
        IN  /\ bstream' = bstream \o chunk
            /\ sockread' = Some(ReadOk(Len(chunk)))
            /\ gret' = IF t.then = "ok" THEN Some(Ok) ELSE gret
            /\ UNCHANGED <<bsent, request, grid_data, signal, pubs>>
            /\ IF t.then = "panic"
               THEN /\ panicked' = TRUE
                    /\ request_buffer' = t.buf
                    /\ blog' = Append(blog, "read")
                    /\ UNCHANGED <<bpc, gpos, nreads, response_buffer, file_bytes>>
               ELSE IF t.then = "more"
               THEN /\ request_buffer' = t.buf
                    /\ gpos' = t.pos
                    /\ nreads' = nreads + 1
                    /\ blog' = Append(blog, "read")
                    /\ UNCHANGED <<bpc, response_buffer, file_bytes, panicked>>
               ELSE IF ~from_utf8_ok(t.buf)
               THEN /\ WebContinue
                    /\ blog' = Append(Append(blog, "read"), "utf8")
                    /\ UNCHANGED <<file_bytes, panicked>>
               ELSE /\ request_buffer' = t.buf
                    /\ gpos' = t.pos
                    /\ nreads' = nreads + 1
                    /\ blog' = Append(blog, "read")
                    /\ response_buffer' = d.rb
                    /\ file_bytes' = d.file_bytes
                    /\ bpc' = "write"
                    /\ UNCHANGED panicked
    /\ UNCHANGED <<bufvars, composevars, parsevars, wire, screenvars>>

\* send_response_buffer returned (a failure of write_all is only printed);
\* socket.write_all(bytes) is awaited when there is a file, else flush
WebWrite ==
    /\ bpc = "write" /\ ~panicked
    /\ \E ok \in BOOLEAN : bsent' = IF ok THEN buffer(response_buffer) ELSE <<>>
    /\ bpc' = IF file_bytes # None THEN "body" ELSE "flush"
    /\ blog' = Append(blog, "write")
    /\ UNCHANGED <<localvars, grid_data, bstream, sockread, gret,
                   signal, panicked, pubs>>
    /\ NotBackend

\* socket.write_all(bytes) returned Ok: socket.flush() is awaited
WebBodyOk ==
    /\ bpc = "body" /\ ~panicked
    /\ bsent' = bsent \o file_bytes[1]
    /\ bpc' = "flush"
    /\ blog' = Append(blog, "body")
    /\ UNCHANGED <<localvars, grid_data, bstream, sockread, gret,
                   signal, panicked, pubs>>
    /\ NotBackend

\* socket.write_all(bytes) returned Err: continue
WebBodyErr ==
    /\ bpc = "body" /\ ~panicked
    /\ WebContinue
    /\ blog' = Append(blog, "body_err")
    /\ UNCHANGED <<request, grid_data, bstream, bsent, sockread, gret,
                   signal, panicked, pubs>>
    /\ NotBackend

\* flush, close and abort, with the delays of 500 ms
WebFlush == BackendFlush

WebClose == BackendClose

WebAbort == BackendAbort

WebNext ==
    \/ WebAcceptOk \/ WebAcceptErr
    \/ CloseSocketFlush \/ CloseSocketClose \/ CloseSocketAbort
    \/ WebReadEof \/ WebReadErr \/ WebRead
    \/ WebWrite \/ WebBodyOk \/ WebBodyErr
    \/ WebFlush \/ WebClose \/ WebAbort

SpecWeb == Init /\ [][WebNext]_vars

(***************************************************************************)
(* screen::task_loop.  Nothing is awaited between the return of wait() and *)
(* reset(), so one step takes the value, draws it and resets the signal.   *)
(***************************************************************************)
\* The cells of a batch, drawn as 2 x 2 rectangles at (2 * col, 2 * row)
Drawn(coords) == {coords[k] : k \in 1..Len(coords)}

ScreenWait ==
    /\ signal # None /\ ~panicked
    /\ LET w == signal_wait(signal)
           result == w.value
       IN  /\ display' = IF result.tag = "Coordinate"
                         THEN display \cup Drawn(flatten(result.coords))
                         ELSE {}
           /\ signal' = signal_reset(w.slot)
           /\ seen' = Some([value |-> result, pubs |-> pubs])
    /\ pubs' = <<>>
    /\ UNCHANGED <<bufvars, composevars, parsevars, backendvars, file_bytes,
                   wire, panicked>>

(***************************************************************************)
(* The backend alone, sent every request of Chunks; and the backend with   *)
(* the screen task, sent the requests of SystemChunks.                     *)
(***************************************************************************)
BackendSteps ==
    \/ BackendAcceptOk \/ BackendAcceptErr
    \/ CloseSocketFlush \/ CloseSocketClose \/ CloseSocketAbort
    \/ BackendReadEof \/ BackendReadErr
    \/ BackendWrite \/ BackendFlush \/ BackendClose \/ BackendAbort

BackendNext == BackendSteps \/ BackendRead(Chunks)

SpecBackend == Init /\ [][BackendNext]_vars

SystemNext == BackendSteps \/ BackendRead(SystemChunks) \/ ScreenWait

SpecSystem == Init /\ [][SystemNext]_vars

\* The executor polls the backend task whenever it can run, and every socket
\* operation and timer it awaits completes (the socket has a timeout).
FairBackend == SpecBackend /\ WF_vars(BackendNext)

(***************************************************************************)
(* Claims on ResponseBuffer                                                *)
(***************************************************************************)
\* C1: write and write_str succeed exactly when pos + len <= S, and then
\* contents() is the previous contents followed by the new bytes; otherwise
\* they fail and leave the cursor and contents() unchanged.  Writing N <= S
\* bytes to an empty buffer gives contents of length N; writing S+1 bytes to
\* an empty buffer fails and leaves contents of length 0.
C1_WriteAllOrNothing ==
    tcall \in {"write", "write_str"} =>
        /\ tok <=> (tprev.pos + Len(targ) <= BufCap)
        /\ tok => /\ buffer(tb) = buffer(tprev) \o targ
                  /\ tb.pos = tprev.pos + Len(targ)
        /\ ~tok => /\ tb.pos = tprev.pos
                   /\ buffer(tb) = buffer(tprev)
        /\ (tprev.pos = 0 /\ Len(targ) <= BufCap) => Len(buffer(tb)) = Len(targ)
        /\ (tprev.pos = 0 /\ Len(targ) = BufCap + 1) => (~tok /\ Len(buffer(tb)) = 0)

\* A write is rejected on a buffer that earlier writes have partly filled.
C1_Witness ==
    /\ tcall = "write"
    /\ ~tok
    /\ tprev.pos > 0
    /\ tprev.pos + Len(targ) = BufCap + 1

\* C2: after any sequence of write and write_str calls, accepted or rejected,
\* 0 <= pos <= S and every byte at index >= pos is still the initial zero.
C2_CursorInBounds ==
    /\ 0 <= tb.pos
    /\ tb.pos <= BufCap
    /\ Len(tb.buf) = BufCap
    /\ \A i \in (tb.pos + 1)..BufCap : tb.buf[i] = 0

\* A write_str of more bytes than remain has been rejected.
C2_Witness ==
    /\ tcall = "write_str"
    /\ ~tok
    /\ tprev.pos > 0
    /\ tprev.pos < BufCap
    /\ Len(targ) > BufCap - tprev.pos

\* C21: when the Content-Length line or the block of write_response_headers
\* does not fit in what is left of the buffer, the buffer is exactly what
\* it was before the call: no part of the line and no blank line without
\* its header is in it.
C21_HeaderAllOrNothing ==
    (ccall \in {"length", "headers"} /\ cprev.pos + Len(ctext) > ComposeCap)
        => crb = cprev

(***************************************************************************)
(* Claims on Request::parse_request                                        *)
(***************************************************************************)
\* C3: parse_request completes without panicking for every content of the
\* request buffer: invalid text, missing request-line tokens, no blank
\* line, a single line, and any number of header lines before the blank
\* line, more than the header array has slots included.
C3_ParseNeverPanics == pstate # "panic"

\* the lines of the text b between the request line and the first empty line
HeaderLinesOf(b) ==
    LET rest == Tail(split_crlf(b))
        blanks == {j \in 1..Len(rest) : Len(rest[j]) = 0}
    IN  SubSeq(rest, 1, IF blanks = {} THEN Len(rest) ELSE Min(blanks) - 1)

\* C14: for a request with h non-empty header lines before the blank line,
\* parse_request returns with headers[i] the i-th line for i < min(h, cap),
\* every other slot unset, the lines beyond the capacity of the array
\* skipped, and method, path and body extracted.
C14_HeadersBeyondCapSkipped ==
    (pstate \in {"parsed", "panic"} /\ prb # None /\ from_utf8_ok(prb[1]))
        => LET hdrs == HeaderLinesOf(prb[1])
           IN  /\ pstate = "parsed"
               /\ \A i \in 1..HeaderCap :
                     preq.headers[i] =
                        IF i <= Len(hdrs) THEN Some(hdrs[i]) ELSE None
               /\ preq.method # None
               /\ preq.path # None
               /\ preq.data # None

\* "GET /data HTTP/1.1\r\nHost: x\r\n\r\n" in a RequestBuffer
GetDataBuffer == Filled(Request(GET, PATH_DATA, <<>>))

Reply200 == STATUS_200 \o HDR_CORS \o CRLF

\* The request the backend has dispatched is METHOD PATH
Dispatched(method, path) ==
    request.method = Some(method) /\ request.path = Some(path)

OutOfBounds(c) == c[1] >= Rows \/ c[2] >= Cols

\* the coordinates of list that lie in the grid are set in grid_data
InBoundsSet(list) ==
    \A k \in 1..Len(list) :
        (list[k] # None /\ ~OutOfBounds(list[k][1]))
            => grid_data[list[k][1][1]][list[k][1][2]] = 1

\* C4: when the body of a POST /data decodes to a batch that holds a
\* coordinate with row >= Rows or column >= Cols, the handler does not fail:
\* the in-bounds coordinates of the batch are set and a 200 response is
\* composed.
C4_OutOfBoundsDropped ==
    LET batch == from_str(request.data[1], BatchSize)
    IN  (/\ Dispatched(POST, PATH_DATA)
         /\ batch # None
         /\ \E k \in 1..BatchSize : batch[1][k] # None /\ OutOfBounds(batch[1][k][1]))
        => /\ ~panicked
           /\ InBoundsSet(batch[1])
           /\ buffer(response_buffer) = Reply200

\* C6: from every state of the backend loop the task eventually is back at
\* accept.
C6_ReturnsToListening == (bpc # "accept") ~> (bpc = "accept")

\* C7: when get_request has returned Ok, the request buffer holds the bytes
\* the reads delivered, in arrival order from index 0, and these bytes
\* contain CR LF CR LF.
C7_BufferHoldsStream ==
    bpc = "write" =>
        /\ Len(bstream) <= ReqCap
        /\ SubSeq(request_buffer, 1, Len(bstream)) = bstream
        /\ contains_terminator(bstream)

\* C8: a connection whose read failed is drained before the loop is back at
\* accept: nothing was handed to the socket, and flush, close and abort were
\* the last operations on it.
C8_ReadFailureDrains ==
    (bpc = "accept" /\ \E k \in 1..Len(blog) : blog[k] \in {"eof", "err"})
        => /\ bsent = <<>>
           /\ Len(blog) >= 3
           /\ SubSeq(blog, Len(blog) - 2, Len(blog)) = <<"flush", "close", "abort">>

\* C9: GET /data is answered with status 200 and a body that lists the
\* occupied cells in row-major order, the first OutCap of them when more
\* are occupied; a 500 is the answer only when serializing the list fails.
C9_GetDataListsCells ==
    LET body == CoordinateListJson(scan(grid_data))
    IN  Dispatched(GET, PATH_DATA) =>
            IF Len(body) > SerCap
            THEN buffer(response_buffer) = STATUS_500 \o HDR_CORS \o CRLF
            ELSE buffer(response_buffer) =
                    STATUS_200 \o HDR_JSON \o HDR_LENGTH \o Digits(Len(body)) \o CRLF
                        \o HDR_CORS \o CRLF \o body

\* C10: a POST /data whose body is a JSON array of up to BatchSize pairs or
\* nulls is accepted, and its in-bounds pairs are set in the grid.
C10_UpToBatchSizeAccepted ==
    \A k \in 0..BatchSize :
        LET list == from_str(request.data[1], k)
        IN  (Dispatched(POST, PATH_DATA) /\ list # None)
                => /\ ~panicked
                   /\ InBoundsSet(list[1])
                   /\ buffer(response_buffer) = Reply200

(***************************************************************************)
(* Claims on the signal                                                    *)
(***************************************************************************)
\* C5: the signal holds at most one pending value.  A pending value is the
\* one signalled last; what wait() returns is the value signalled last
\* before it returned, whatever was signalled before that; and once wait()
\* has returned nothing is pending until the next signal.
C5_LastWriteWins ==
    /\ (signal = None) <=> (pubs = <<>>)
    /\ signal # None => signal[1] = pubs[Len(pubs)]
    /\ seen # None => /\ seen[1].pubs # <<>>
                      /\ seen[1].value = seen[1].pubs[Len(seen[1].pubs)]

\* wait() returned B after A and then a different B were signalled, and
\* nothing is pending.
C5_Witness ==
    /\ seen # None
    /\ Len(seen[1].pubs) = 2
    /\ seen[1].pubs[1] # seen[1].pubs[2]
    /\ seen[1].value = seen[1].pubs[2]
    /\ signal = None

(***************************************************************************)
(* Claims on the arms of the dispatch                                      *)
(***************************************************************************)
\* "HTTP/1.1 404 Not Found" and the headers of a response without a body
Reply404 == STATUS_404 \o HDR_CORS \o CRLF

\* the value signalled last is Clear
ClearedLast == pubs # <<>> /\ pubs[Len(pubs)] = Clear

\* C11: after POST /clear, whatever the grid was, every cell is 0, Clear has
\* been signalled and the response is a 200 without a body; as long as
\* nothing else is signalled (a second POST /clear included) the grid stays
\* empty, and a GET /data is answered with the empty list.
C11_ClearEmptiesGrid ==
    /\ Dispatched(POST, PATH_CLEAR)
        => /\ grid_data = EmptyGrid
           /\ signal = Some(Clear)
           /\ ClearedLast
           /\ buffer(response_buffer) = Reply200
           /\ ~panicked
    /\ ClearedLast => grid_data = EmptyGrid
    /\ (ClearedLast /\ Dispatched(GET, PATH_DATA))
        => buffer(response_buffer) =
              STATUS_200 \o HDR_JSON \o HDR_LENGTH \o Digits(13) \o CRLF
                  \o HDR_CORS \o CRLF \o CoordinateListJson(<<>>)

\* POST /clear has been handled after a batch with cells in it was posted.
C11_Witness ==
    /\ Dispatched(POST, PATH_CLEAR)
    /\ bpc = "write"
    /\ Len(pubs) = 2
    /\ pubs[1].tag = "Coordinate"
    /\ flatten(pubs[1].coords) # <<>>
    /\ pubs[2] = Clear
    /\ grid_data = EmptyGrid

\* the request is one of the three routes
Recognised(req) ==
    \/ req.method = Some(GET) /\ req.path = Some(PATH_DATA)
    \/ req.method = Some(POST) /\ req.path = Some(PATH_DATA)
    \/ req.method = Some(POST) /\ req.path = Some(PATH_CLEAR)

\* C12: a request that is parsed and whose method and path are none of
\* GET /data, POST /data, POST /clear is answered with a 404 without a body;
\* no cell of the grid changes and nothing is signalled.
C12_UnknownRouteIs404 ==
    [][(/\ bpc = "read"
        /\ request'.method # None \/ bpc' = "write"
        /\ ~Recognised(request'))
       => /\ bpc' = "write"
          /\ ~panicked'
          /\ buffer(response_buffer') = Reply404
          /\ grid_data' = grid_data
          /\ signal' = signal
          /\ pubs' = pubs]_vars

\* An unknown route has been answered while cells are set and a signal is
\* pending.
C12_Witness ==
    /\ bpc = "write"
    /\ request.method = Some(PUT)
    /\ buffer(response_buffer) = Reply404
    /\ grid_data # EmptyGrid
    /\ signal # None

\* C13: when the body of a POST /data does not decode as a batch, the grid
\* is unchanged, nothing is signalled, and the response is a 200 without a
\* body.
C13_UndecodableBodyIsNoOp ==
    [][(/\ bpc = "read"
        /\ request'.method = Some(POST)
        /\ request'.path = Some(PATH_DATA)
        /\ from_str(request'.data[1], BatchSize) = None)
       => /\ bpc' = "write"
          /\ ~panicked'
          /\ buffer(response_buffer') = Reply200
          /\ grid_data' = grid_data
          /\ signal' = signal
          /\ pubs' = pubs]_vars

\* A POST /data whose body does not decode has been answered while cells
\* are set.
C13_Witness ==
    /\ bpc = "write"
    /\ Dispatched(POST, PATH_DATA)
    /\ from_str(request.data[1], BatchSize) = None
    /\ request.data # Some(<<>>)
    /\ grid_data # EmptyGrid
    /\ buffer(response_buffer) = Reply200

\* the request buffer holds a byte that cannot occur in valid text
NotValidText(b) == \E i \in 1..Len(b) : b[i] > 127

\* C16: when the request buffer handed to parse_request is not valid text,
\* nothing is extracted (method, path, every header slot and data stay
\* None) and the dispatch does not take one of the three routes: it answers
\* 404.
C16_InvalidTextNotParsed ==
    (bpc \in {"write", "flush", "delay1", "delay2"} /\ NotValidText(request_buffer))
        => /\ request = Request_new
           /\ ~Recognised(request)
           /\ buffer(response_buffer) = Reply404

\* A request whose buffer is not valid text has been dispatched while cells
\* are set.
C16_Witness ==
    /\ bpc = "write"
    /\ NotValidText(request_buffer)
    /\ request = Request_new
    /\ buffer(response_buffer) = Reply404
    /\ grid_data # EmptyGrid

(***************************************************************************)
(* Claims on get_request and on the order of the socket operations         *)
(***************************************************************************)
\* the last socket.read returned Ok(0)
ReadZero == sockread # None /\ sockread[1][1] = "Ok" /\ sockread[1][2] = 0

\* the last socket.read returned Err(e)
ReadErr == sockread # None /\ sockread[1][1] = "Err"

\* C17: when socket.read returns Ok(0), get_request returns
\* Err(ConnectionReset) at once; when it returns Err(e), get_request returns
\* Err(e), the same e, at once; whatever the earlier reads delivered, it
\* does not return Ok and nothing is parsed or answered.
C17_ReadFailureReturned ==
    /\ ReadZero => gret = Some(Err("ConnectionReset"))
    /\ ReadErr => gret = sockread
    /\ (ReadZero \/ ReadErr)
        => /\ blog[Len(blog) - 1] \in {"accept", "read"}
           /\ bpc = "accept"
           /\ request = Request_new
           /\ bsent = <<>>
    /\ gret = Some(Ok) => (sockread[1][1] = "Ok" /\ sockread[1][2] > 0)

\* A read failed with an error other than ConnectionReset after an earlier
\* read of the connection had delivered bytes.
C17_Witness ==
    /\ ReadErr
    /\ sockread[1][2] = "OtherError"
    /\ gret = Some(Err("OtherError"))
    /\ bstream # <<>>

\* C23: each time get_request examines buffer[..pos + len] after a read of
\* len bytes, pos + len is at most the capacity of the buffer.
C23_SliceInBounds ==
    [][(/\ bpc = "read"
        /\ blog' = Append(blog, "read")
        /\ sockread' # None
        /\ sockread'[1][1] = "Ok")
       => gpos + sockread'[1][2] <= ReqCap]_vars

\* the socket operations of a connection so far are in the order of the
\* lifecycle: reads, then write_all, flush, close, abort
InLifecycleOrder ==
    \A k \in 1..Len(blog) :
        /\ blog[k] = "read" => blog[k - 1] \in {"accept", "read"}
        /\ blog[k] = "write" => blog[k - 1] = "read"
        /\ blog[k] = "flush" => blog[k - 1] = "write"
        /\ blog[k] = "close" => blog[k - 1] = "flush"
        /\ blog[k] = "abort" => blog[k - 1] = "close"

\* C18: within one connection the socket operations occur in the order
\* accept, read, write_all, flush, close, abort: close only after the
\* response was handed to the socket and flushed, abort only after close,
\* and the next accept only after the abort.
C18_LifecycleInOrder ==
    (blog # <<>> /\ blog[1] = "accept")
        => /\ InLifecycleOrder
           /\ bpc = "accept" => blog[Len(blog)] = "abort"

\* C19: when accept fails, the socket is released with flush, close and
\* abort before accept is called again; no request is handled, no response
\* is sent, and neither the grid nor the signal changes.
C19_AcceptFailureReleases ==
    [][(blog' # <<>> /\ blog'[1] = "accept_err")
        => /\ bpc' = "accept"
                => blog' = <<"accept_err", "flush", "close", "abort">>
           /\ bsent' = <<>>
           /\ gret' = None
           /\ grid_data' = grid_data
           /\ signal' = signal]_vars

(***************************************************************************)
(* Claims on the bytes of the response                                     *)
(***************************************************************************)
\* a response has been composed for the request of this connection
Responded == bpc \in {"write", "flush", "delay1", "delay2"}

\* b starts with the bytes of head
StartsWith(b, head) == Len(b) >= Len(head) /\ SubSeq(b, 1, Len(head)) = head

\* the status lines write_response_status knows
StatusLines == {STATUS_200, STATUS_404, STATUS_500}

\* status codes write_response_status has no arm for
OtherCodes == {0, 201, 400, 501}

\* C20 as the specification words it: every response is a status line,
\* directly followed by the Access-Control-Allow-Origin line, a blank line,
\* and the optional body.
C20_StatusCorsBlankBody ==
    Responded =>
        \E status \in StatusLines :
            StartsWith(buffer(response_buffer), status \o HDR_CORS \o CRLF)

\* C20: every response is one status line for 200, 404 or 500; then, in the
\* 200 response to GET /data only, a Content-Type and a Content-Length
\* line; then the Access-Control-Allow-Origin line, a blank line and the
\* body, which only the response to GET /data has.  What is handed to the
\* socket is that response.  write_response_status with any other code
\* leaves the buffer as it is.
C20_ResponseFormat ==
    /\ Responded =>
        \E status \in StatusLines :
            \E extra \in {<<>>} \cup
                    {HDR_JSON \o HDR_LENGTH \o Digits(n) \o CRLF : n \in 0..SerCap} :
                LET b == buffer(response_buffer)
                    head == status \o extra \o HDR_CORS \o CRLF
                IN  /\ StartsWith(b, head)
                    /\ extra # <<>>
                        => (status = STATUS_200 /\ Dispatched(GET, PATH_DATA))
                    /\ Len(b) > Len(head) => extra # <<>>
    /\ Responded => bsent \in {<<>>, buffer(response_buffer)}
    /\ \A code \in OtherCodes :
          write_response_status(response_buffer, code) = response_buffer

\* The response to a GET /data that lists cells has been handed to the
\* socket.
C20_Witness ==
    /\ bpc = "flush"
    /\ Dispatched(GET, PATH_DATA)
    /\ grid_data # EmptyGrid
    /\ bsent = STATUS_200 \o HDR_JSON \o HDR_LENGTH
                  \o Digits(Len(CoordinateListJson(scan(grid_data)))) \o CRLF
                  \o HDR_CORS \o CRLF \o CoordinateListJson(scan(grid_data))

(***************************************************************************)
(* Claims on the grid and the display                                      *)
(***************************************************************************)
\* C22: a step changes a cell of the grid only when it handles POST /data
\* or POST /clear.  Handling GET /data or a request answered 404, a failed
\* read or accept, the socket operations and every step of the screen task
\* leave the grid as it is, and handling GET /data signals nothing.
C22_GridChangedOnlyByPost ==
    [][/\ grid_data' # grid_data
            => /\ bpc = "read"
               /\ request'.method = Some(POST)
               /\ request'.path \in {Some(PATH_DATA), Some(PATH_CLEAR)}
       /\ (bpc = "read" /\ bpc' = "write" /\ request'.method = Some(GET))
            => (signal' = signal /\ pubs' = pubs)]_vars

\* GET /data has been handled while cells are set, after the screen task
\* has drawn.
C22_Witness ==
    /\ bpc = "write"
    /\ Dispatched(GET, PATH_DATA)
    /\ grid_data # EmptyGrid
    /\ seen # None
    /\ display # {}

\* what the display shows after value has been drawn on shown
Rendered(shown, value) ==
    IF value.tag = "Coordinate"
    THEN shown \cup Drawn(flatten(value.coords))
    ELSE {}

\* C24: a pending ScreenSignal leaves the slot only by being rendered by the
\* screen task, or by being replaced by a value the backend signals later.
\* The screen task's reset() empties nothing but the slot wait() has just
\* emptied: no value signalled after that wait() is discarded by it.
C24_NoSignalLost ==
    [][(signal # None /\ signal' # signal)
        => \/ /\ signal' = None
              /\ seen' # None
              /\ seen'[1].value = signal[1]
              /\ display' = Rendered(display, signal[1])
              /\ pubs' = <<>>
           \/ /\ signal' # None
              /\ Len(pubs') >= 2
              /\ pubs'[Len(pubs') - 1] = signal[1]
              /\ pubs'[Len(pubs')] = signal'[1]
              /\ UNCHANGED <<display, seen>>]_vars

\* The screen task has drawn the second of two different values, the first
\* having been replaced before wait() returned, and a third one is pending.
C24_Witness ==
    /\ seen # None
    /\ Len(seen[1].pubs) = 2
    /\ seen[1].pubs[1] # seen[1].pubs[2]
    /\ seen[1].value = seen[1].pubs[2]
    /\ signal # None
    /\ signal[1] # seen[1].value

\* the cells of the grid that are not 0
Occupied(grid) ==
    {rc \in (0..(Rows - 1)) \X (0..(Cols - 1)) : grid[rc[1]][rc[2]] # 0}

\* C25: whenever the signal slot is empty, so that the screen task waits,
\* the cells drawn on the display are the occupied cells of the grid.
C25_DisplayMirrorsGrid ==
    (signal = None /\ ~panicked) => display = Occupied(grid_data)

\* C26: in every 200 response to GET /data the body is as long as the
\* Content-Length line of the same response says.
C26_ContentLengthMatchesBody ==
    (Responded /\ Dispatched(GET, PATH_DATA)
        /\ StartsWith(buffer(response_buffer), STATUS_200))
        => \E n \in 0..SerCap :
              LET b == buffer(response_buffer)
                  head == STATUS_200 \o HDR_JSON \o HDR_LENGTH \o Digits(n)
                              \o CRLF \o HDR_CORS \o CRLF
              IN  StartsWith(b, head) /\ Len(b) = Len(head) + n

(***************************************************************************)
(* Claims on the release of the socket                                     *)
(***************************************************************************)
\* how often op is in the log of the connection
Count(op) == Cardinality({k \in 1..Len(blog) : blog[k] = op})

\* C27: when the loop is back at accept after a connection was accepted,
\* the socket of that connection was flushed, closed and aborted, each
\* exactly once.
C27_ReleasedExactlyOnce ==
    (bpc = "accept" /\ blog # <<>> /\ blog[1] = "accept")
        => /\ Count("flush") = 1
           /\ Count("close") = 1
           /\ Count("abort") = 1

(***************************************************************************)
(* Claims on the grid across requests                                      *)
(***************************************************************************)
\* every coordinate of the batch is set in the grid
CellsSet(grid, b) ==
    \A k \in 1..Len(flatten(b)) : grid[flatten(b)[k][1]][flatten(b)[k][2]] = 1

\* C28: when the response to a POST /data request is about to be sent, the
\* coordinates of the body the client sent are set in the grid and were the
\* last value published to the signal, however the reads cut the request.
C28_SplitReadsApplied ==
    \A b \in SplitBatches :
        (bpc = "write" /\ Sent = Request(POST, PATH_DATA, BatchJson(b)))
            => /\ CellsSet(grid_data, b)
               /\ pubs # <<>> /\ pubs[Len(pubs)] = Coordinate(b)

\* C29: every cell of the grid is 0 or 1, and a step in which a cell goes
\* back to 0 is the handling of a POST /clear request.
C29_CellsGrowUntilClear ==
    [][\A r \in 0..(Rows - 1), c \in 0..(Cols - 1) :
         /\ grid_data[r][c] \in {0, 1}
         /\ grid_data'[r][c] \in {0, 1}
         /\ (grid_data[r][c] = 1 /\ grid_data'[r][c] = 0)
              => /\ bpc = "read"
                 /\ request'.method = Some(POST)
                 /\ request'.path = Some(PATH_CLEAR)]_vars

\* two POST /data requests were applied one after the other and the cells
\* of both are occupied
C29_Witness ==
    /\ bpc = "write"
    /\ request.method = Some(POST) /\ request.path = Some(PATH_DATA)
    /\ Len(pubs) = 2 /\ pubs[1] = Coordinate(B_00) /\ pubs[2] = Coordinate(B_12_01)
    /\ Occupied(grid_data) = {<<0, 0>>, <<1, 2>>, <<0, 1>>}

=============================================================================
